---- MODULE Spec2Model ----
(***************************************************************************)
(* A model of ableton_git_setup.py: the two scripts it installs,           *)
(* .git-filters/als-textconv-semantic.py (parse_als, format_output) and    *)
(* .git-filters/generate-summary.py (generate_summary, generate_all).      *)
(*                                                                         *)
(* An .als file is modelled by what the code can observe of its bytes:     *)
(* whether open() succeeds, whether gzip.decompress/decode succeed,        *)
(* whether ET.fromstring accepts the text, and the element tree it yields. *)
(* An XML attribute value is the number it parses to, or unparseable.      *)
(* A text is a sequence of lines; a line is a record naming the statement  *)
(* of format_output that appended it and the values it interpolates.       *)
(***************************************************************************)
EXTENDS Integers, Sequences, FiniteSets, TLC

(* ------------------------------ bounds --------------------------------- *)
MaxFiles == 2
MaxTracks == 2
MaxArr == 2
MaxSess == 4
MaxTime == 1
MaxKeywords == 2
MaxChildren == 3
MaxMarkers == 4
MaxBeats == 8
MaxMods == 2
MaxRuns == 2

(* ------------------------- attribute values ---------------------------- *)
\* A "Value" attribute text that float()/int() accepts, giving n.
Num(n) == [ok |-> TRUE, num |-> n]
\* A "Value" attribute text on which float()/int() raise ValueError.
BadValue == [ok |-> FALSE, num |-> 0]

\* The outcome of a call: exc = "" when it returned val, else the exception.
Ret(v) == [exc |-> "", val |-> v]
Raise(e, v) == [exc |-> e, val |-> v]

(* ---------------------------- the tables ------------------------------- *)
WARP_MODES ==
  (0 :> "Beats") @@ (1 :> "Tones") @@ (2 :> "Texture") @@ (3 :> "Re-Pitch")
  @@ (4 :> "Complex") @@ (6 :> "Complex Pro")

TrackTags == {"AudioTrack", "MidiTrack", "ReturnTrack", "GroupTrack"}
\* A child of <Tracks> whose tag is none of the four that parse_als tests.
OtherTag == "OtherTrack"

\* sess_clips[:3]
SessionShown == 3

(* ------------------------------ lines ---------------------------------- *)
\* kind: the statement that appends the line; txt, n, m, x: what it interpolates.
L(k, s, n, m) == [kind |-> k, txt |-> s, n |-> n, m |-> m, x |-> 0]

(* ----------------------------- formatters ------------------------------ *)
\* A number with a fraction is held in thousandths: Dec(m) is the attribute
\* text that float() reads as m / 1000.
Dec(m) == [ok |-> TRUE, num |-> m]

\* a / d rounded to the nearest integer, ties to even, as the format
\* specifications .0f, .1f and .2f round.
RoundDiv(a, d) ==
  LET q == a \div d
      r == a % d
  IN IF 2 * r < d THEN q
     ELSE IF 2 * r > d THEN q + 1
     ELSE IF q % 2 = 0 THEN q ELSE q + 1

\* A formatted number: num / 10^dec printed with dec decimals, then unit.
\* A fixed word ("on", "C", "-inf") has num = 0, dec = 0.
Fmt(num, dec, unit) == [num |-> num, dec |-> dec, unit |-> unit]

\* The substrings format_param looks for in name.lower().
Keywords ==
  {"time", "rate", "on", "sync", "link", "freeze", "wet", "mix", "amount",
   "feedback", "depth", "gain", "drive", "resonance", "freq", "mod",
   "timesec", "attack", "release", "predelay"}

\* A parameter name is the set of those substrings it contains.
Has(name, k) == k \in name

\* The frequency rule is tried before the percentage rule.
format_param_freq_first(value, name) ==
  IF ~value.ok THEN Fmt(0, 0, "str(value)")
  ELSE LET fval == value.num IN
    IF /\ fval = 0 \/ fval = 1000
       /\ ~Has(name, "time") /\ ~Has(name, "rate")
       /\ Has(name, "on") \/ Has(name, "sync") \/ Has(name, "link") \/ Has(name, "freeze")
    THEN Fmt(0, 0, IF fval = 1000 THEN "on" ELSE "off")
    ELSE IF Has(name, "freq") /\ ~Has(name, "mod")
    THEN IF fval >= 1000000 THEN Fmt(RoundDiv(fval, 100000), 1, "kHz")
         ELSE Fmt(RoundDiv(fval, 1000), 0, "Hz")
    ELSE IF /\ 0 <= fval /\ fval <= 1000
            /\ \E k \in {"wet", "mix", "amount", "feedback", "depth", "gain",
                          "drive", "resonance"} : Has(name, k)
    THEN Fmt(RoundDiv(fval, 10), 0, "%")
    ELSE IF /\ \E k \in {"timesec", "attack", "release", "predelay"} : Has(name, k)
            /\ fval < 10000
    THEN IF fval < 1000 THEN Fmt(fval, 0, "ms") ELSE Fmt(RoundDiv(fval, 10), 2, "s")
    ELSE IF fval % 1000 = 0 THEN Fmt(fval \div 1000, 0, "")
    ELSE Fmt(RoundDiv(fval, 10), 2, "")

format_param(value, name) ==
  IF ~value.ok THEN Fmt(0, 0, "str(value)")
  ELSE LET fval == value.num IN
    IF /\ fval = 0 \/ fval = 1000
       /\ ~Has(name, "time") /\ ~Has(name, "rate")
       /\ Has(name, "on") \/ Has(name, "sync") \/ Has(name, "link") \/ Has(name, "freeze")
    THEN Fmt(0, 0, IF fval = 1000 THEN "on" ELSE "off")
    ELSE IF /\ 0 <= fval /\ fval <= 1000
            /\ \E k \in {"wet", "mix", "amount", "feedback", "depth", "gain",
                          "drive", "resonance"} : Has(name, k)
    THEN Fmt(RoundDiv(fval, 10), 0, "%")
    ELSE IF Has(name, "freq") /\ ~Has(name, "mod")
    THEN IF fval >= 1000000 THEN Fmt(RoundDiv(fval, 100000), 1, "kHz")
         ELSE Fmt(RoundDiv(fval, 1000), 0, "Hz")
    ELSE IF /\ \E k \in {"timesec", "attack", "release", "predelay"} : Has(name, k)
            /\ fval < 10000
    THEN IF fval < 1000 THEN Fmt(fval, 0, "ms") ELSE Fmt(RoundDiv(fval, 10), 2, "s")
    ELSE IF fval % 1000 = 0 THEN Fmt(fval \div 1000, 0, "")
    ELSE Fmt(RoundDiv(fval, 10), 2, "")

Abs(n) == IF n < 0 THEN -n ELSE n

\* 20 * math.log10(val) in thousandths of a decibel, for the linear gains
\* (in thousandths) the model feeds format_db.
db_of(val) ==
  CASE val = 1 -> -60000 [] val = 100 -> -20000 [] val = 500 -> -6021
    [] val = 700 -> -3098 [] val = 990 -> -87 [] val = 1000 -> 0
    [] val = 1010 -> 86 [] val = 1012 -> 104 [] val = 1500 -> 3522
    [] val = 2000 -> 6021 [] val = 10000 -> 20000 [] val = 100000 -> 40000

\* The decimal is never dropped.
format_db_always_decimal(linear_value) ==
  IF ~linear_value.ok THEN Fmt(0, 0, "0dB")
  ELSE LET val == linear_value.num IN
    IF val <= 0 THEN Fmt(0, 0, "-inf")
    ELSE LET db == db_of(val) IN
      IF Abs(db) < 100 THEN Fmt(0, 0, "0dB")
      ELSE Fmt(RoundDiv(db, 100), 1, "dB")

\* The bare except turns every failure of float() into "0dB".
format_db(linear_value) ==
  IF ~linear_value.ok THEN Fmt(0, 0, "0dB")
  ELSE LET val == linear_value.num IN
    IF val <= 0 THEN Fmt(0, 0, "-inf")
    ELSE LET db == db_of(val) IN
      IF Abs(db) < 100 THEN Fmt(0, 0, "0dB")
      ELSE IF db % 1000 # 0 THEN Fmt(RoundDiv(db, 100), 1, "dB")
      ELSE Fmt(db \div 1000, 0, "dB")

\* int() cuts the fraction of abs(val) * 50 off.
format_pan(pan_value) ==
  IF ~pan_value.ok THEN Fmt(0, 0, "C")
  ELSE LET val == pan_value.num IN
    IF Abs(val) < 10 THEN Fmt(0, 0, "C")
    ELSE LET pct == (Abs(val) * 50) \div 1000
         IN Fmt(pct, 0, IF val < 0 THEN "L" ELSE "R")

(* -------------------------- device parameters -------------------------- *)
SKIP_PARAMS ==
  {"LomId", "LomIdView", "OverwriteProtectionNumber", "LastSelectedTimeableIndex",
   "LastSelectedClipEnvelopeIndex", "ModulationSourceCount", "IsFolded", "IsExpanded",
   "ShouldShowPresetName", "Annotation", "UserName", "ParametersListWrapper",
   "LastPresetRef", "LockedScripts", "SendsListWrapper", "Pointee",
   "ViewStateSesstionTrackWidth", "SourceContext", "BranchSelectorRange",
   "IsAutoSelectEnabled", "ChainSelector"}

\* A child of a device element.  kind is what its tag starts with:
\* "MacroDisplayNames." and "MacroControls." are followed by idx (-1: not a
\* number), any other child ("") has the tag itself.  Value is the child's own
\* Value attribute; manual is its <Manual> child: "none", or there with an
\* "empty" Value, or with the "value" in val.
Child(kind, tag, idx, Value, manual, val) ==
  [kind |-> kind, tag |-> tag, idx |-> idx, Value |-> Value, manual |-> manual,
   val |-> val]

\* dev.tag.endswith('GroupDevice') on the device tags of the model.
endswith_GroupDevice(tag) ==
  tag \in {"InstrumentGroupDevice", "AudioEffectGroupDevice", "MidiEffectGroupDevice",
           "DrumGroupDevice"}

\* re.match(r'^Macro \d+$', name) on the display names of the model.
match_Macro_digits(name) == name \in {"Macro 1", "Macro 2", "Macro 16"}

\* The keywords of format_param found in name.lower(), for the names of the
\* model ("annotation" ends in "on").
name_lower(name) ==
  CASE name = "Frequency" -> {"freq"}
    [] name = "Annotation" -> {"on"}
    [] name = "On" -> {"on"}
    [] name = "Gain" -> {"gain"}
    [] OTHER -> {}

\* A display name is kept whatever it matches.
get_macro_display_names_all(children) ==
  LET RECURSIVE names(_)
      names(n) ==
        IF n = 0 THEN <<>>
        ELSE LET child == children[n]
                 before == names(n - 1)
             IN IF child.kind = "MacroDisplayNames." /\ child.idx >= 0
                   /\ child.Value # ""
                THEN (child.idx :> child.Value) @@ before
                ELSE before
  IN names(Len(children))

\* idx -> custom name; a later child with the same idx replaces an earlier one.
get_macro_display_names(children) ==
  LET RECURSIVE names(_)
      names(n) ==
        IF n = 0 THEN <<>>
        ELSE LET child == children[n]
                 before == names(n - 1)
             IN IF child.kind = "MacroDisplayNames." /\ child.idx >= 0
                   /\ child.Value # "" /\ ~match_Macro_digits(child.Value)
                THEN (child.idx :> child.Value) @@ before
                ELSE before
  IN names(Len(children))

\* The test against SKIP_PARAMS is left out.
device_params_no_skip(dev) ==
  LET macro_names == IF endswith_GroupDevice(dev.tag)
                     THEN get_macro_display_names(dev.children) ELSE <<>>
      RECURSIVE params(_)
      params(n) ==
        IF n = 0 THEN <<>>
        ELSE LET child == dev.children[n]
                 before == params(n - 1)
             IN IF child.kind = "" /\ child.tag = "On"
                THEN before
                ELSE IF child.kind = "MacroDisplayNames." THEN before
                ELSE IF child.kind = "MacroControls."
                THEN IF child.manual = "value" /\ child.idx \in DOMAIN macro_names
                     THEN LET param_name == macro_names[child.idx]
                          IN (param_name :> format_param(child.val, name_lower(param_name)))
                             @@ before
                     ELSE before
                ELSE IF child.manual = "value"
                THEN (child.tag :> format_param(child.val, name_lower(child.tag))) @@ before
                ELSE before
  IN params(Len(dev.children))

\* The params dict of one device: key -> formatted value.
device_params(dev) ==
  LET macro_names == IF endswith_GroupDevice(dev.tag)
                     THEN get_macro_display_names(dev.children) ELSE <<>>
      RECURSIVE params(_)
      params(n) ==
        IF n = 0 THEN <<>>
        ELSE LET child == dev.children[n]
                 before == params(n - 1)
             IN IF child.kind = "" /\ (child.tag \in SKIP_PARAMS \/ child.tag = "On")
                THEN before
                ELSE IF child.kind = "MacroDisplayNames." THEN before
                ELSE IF child.kind = "MacroControls."
                THEN IF child.manual = "value" /\ child.idx \in DOMAIN macro_names
                     THEN LET param_name == macro_names[child.idx]
                          IN (param_name :> format_param(child.val, name_lower(param_name)))
                             @@ before
                     ELSE before
                ELSE IF child.manual = "value"
                THEN (child.tag :> format_param(child.val, name_lower(child.tag))) @@ before
                ELSE before
  IN params(Len(dev.children))

(* ------------------------- clip extraction ----------------------------- *)
NoWarp == [present |-> FALSE, mode |-> "", has_markers |-> FALSE, markers |-> 0]

\* The marker count is reported from two markers on.
get_warp_info_from_two(clip) ==
  IF ~clip.IsWarped THEN Ret(NoWarp)
  ELSE IF ~clip.WarpMode.ok THEN Raise("ValueError", NoWarp)
  ELSE LET mode_name == IF clip.WarpMode.num \in DOMAIN WARP_MODES
                        THEN WARP_MODES[clip.WarpMode.num] ELSE "Unknown"
       IN IF clip.markers >= 2
          THEN Ret([present |-> TRUE, mode |-> mode_name,
                    has_markers |-> TRUE, markers |-> clip.markers])
          ELSE IF clip.markers > 0
          THEN Ret([present |-> TRUE, mode |-> mode_name,
                    has_markers |-> FALSE, markers |-> 0])
          ELSE Ret(NoWarp)

get_warp_info(clip) ==
  IF ~clip.IsWarped THEN Ret(NoWarp)
  ELSE IF ~clip.WarpMode.ok THEN Raise("ValueError", NoWarp)
  ELSE LET mode_name == IF clip.WarpMode.num \in DOMAIN WARP_MODES
                        THEN WARP_MODES[clip.WarpMode.num] ELSE "Unknown"
       IN IF clip.markers > 2
          THEN Ret([present |-> TRUE, mode |-> mode_name,
                    has_markers |-> TRUE, markers |-> clip.markers])
          ELSE IF clip.markers > 0
          THEN Ret([present |-> TRUE, mode |-> mode_name,
                    has_markers |-> FALSE, markers |-> 0])
          ELSE Ret(NoWarp)

FOLLOW_ACTIONS ==
  (0 :> "none") @@ (1 :> "stop") @@ (2 :> "again") @@ (3 :> "prev") @@ (4 :> "next")
  @@ (5 :> "first") @@ (6 :> "last") @@ (7 :> "any") @@ (8 :> "other")

\* settings['follow']: "<action> @ <n> <unit>", or no such key.
NoFollow == [present |-> FALSE, action |-> "", n |-> 0, unit |-> ""]

\* The follow action of parse_launch_settings.  FollowTime is in beats, four
\* to the bar; the bare except drops a follow action whose index or time
\* does not parse.
parse_launch_settings(clip) ==
  IF ~clip.FollowActionEnabled THEN NoFollow
  ELSE IF ~clip.FollowActionA.ok THEN NoFollow
  ELSE LET action == IF clip.FollowActionA.num \in DOMAIN FOLLOW_ACTIONS
                     THEN FOLLOW_ACTIONS[clip.FollowActionA.num] ELSE "unknown"
       IN IF action = "none" THEN NoFollow
          ELSE IF ~clip.FollowTime.ok THEN NoFollow
          ELSE [present |-> TRUE, action |-> action,
                n |-> RoundDiv(clip.FollowTime.num, 4),
                unit |-> IF clip.FollowTime.num = 4 THEN "bar" ELSE "bars"]

\* "<bar>.<beat>" is encoded as bar * 10 + beat (beat is in 1..4); a text
\* that float() rejects is returned unchanged, encoded as 0.
format_beats(v) ==
  IF v.ok THEN ((v.num \div 4) + 1) * 10 + ((v.num % 4) + 1) ELSE 0

NoClipInfo == [name |-> 0, start |-> 0, time_float |-> 0, warp |-> NoWarp]

parse_clip(clip) ==
  LET is_audio == clip.tag = "AudioClip"
      start == format_beats(clip.Time)
      warp == IF is_audio THEN get_warp_info(clip) ELSE Ret(NoWarp)
  IN IF ~clip.Time.ok THEN Raise("ValueError", NoClipInfo)
     ELSE IF warp.exc # "" THEN Raise(warp.exc, NoClipInfo)
     ELSE Ret([name |-> clip.Name, start |-> start,
               time_float |-> clip.Time.num, warp |-> warp.val])

\* track.findall(".//<path>/<tag>"): the elements of that tag, document order.
findall(elems, tag) == SelectSeq(elems, LAMBDA e : e.tag = tag)

RECURSIVE InsertByTime(_, _)
\* c goes after every element whose key is not greater (the sort is stable).
InsertByTime(sorted, c) ==
  IF sorted = <<>> THEN <<c>>
  ELSE IF Head(sorted).time_float <= c.time_float
       THEN <<Head(sorted)>> \o InsertByTime(Tail(sorted), c)
       ELSE <<c>> \o sorted

\* arrangement_clips left in findall order.
sort_dropped(s) == s

RECURSIVE sort_by_time_float(_)
sort_by_time_float(s) ==
  IF s = <<>> THEN <<>>
  ELSE InsertByTime(sort_by_time_float(SubSeq(s, 1, Len(s) - 1)), s[Len(s)])

AnyRaise(rs) == \E k \in DOMAIN rs : rs[k].exc # ""
Vals(rs) == [k \in DOMAIN rs |-> rs[k].val]

\* track.tag.replace("Track", "")
type_of(tag) ==
  CASE tag = "AudioTrack" -> "Audio" [] tag = "MidiTrack" -> "Midi"
    [] tag = "ReturnTrack" -> "Return" [] tag = "GroupTrack" -> "Group"
    [] OTHER -> "Other"

NoTrackInfo ==
  [type |-> "", name |-> 0, arrangement_clips |-> <<>>, session_clips |-> <<>>]

parse_track(track) ==
  LET arr_elems == findall(track.events, "AudioClip") \o findall(track.events, "MidiClip")
      arr == [k \in DOMAIN arr_elems |-> parse_clip(arr_elems[k])]
      sess_elems == findall(track.slots, "AudioClip") \o findall(track.slots, "MidiClip")
      sess == [k \in DOMAIN sess_elems |-> parse_clip(sess_elems[k])]
  IN IF AnyRaise(arr) \/ AnyRaise(sess) THEN Raise("ValueError", NoTrackInfo)
     ELSE Ret([type |-> type_of(track.tag), name |-> track.Name,
               arrangement_clips |-> sort_by_time_float(Vals(arr)),
               session_clips |-> Vals(sess)])

(* ------------------------------ parse_als ------------------------------ *)
EmptyTracks == [audio |-> <<>>, midi |-> <<>>, return |-> <<>>, group |-> <<>>]

\* The ReturnTrack branch appends to the group list.
append_track_wrong_list(tracks, tag, info) ==
  IF tag = "AudioTrack" THEN [tracks EXCEPT !.audio = Append(@, info)]
  ELSE IF tag = "MidiTrack" THEN [tracks EXCEPT !.midi = Append(@, info)]
  ELSE IF tag = "ReturnTrack" THEN [tracks EXCEPT !.group = Append(@, info)]
  ELSE IF tag = "GroupTrack" THEN [tracks EXCEPT !.group = Append(@, info)]
  ELSE tracks

\* The if/elif chain that files a parsed track under its kind.
append_track(tracks, tag, info) ==
  IF tag = "AudioTrack" THEN [tracks EXCEPT !.audio = Append(@, info)]
  ELSE IF tag = "MidiTrack" THEN [tracks EXCEPT !.midi = Append(@, info)]
  ELSE IF tag = "ReturnTrack" THEN [tracks EXCEPT !["return"] = Append(@, info)]
  ELSE IF tag = "GroupTrack" THEN [tracks EXCEPT !.group = Append(@, info)]
  ELSE tracks

RECURSIVE collect_tracks(_, _)
\* for t in tracks_elem: info = parse_track(t); ...append(info)
collect_tracks(children, n) ==
  IF n = 0 THEN Ret(EmptyTracks)
  ELSE LET before == collect_tracks(children, n - 1)
           info == parse_track(children[n])
       IN IF before.exc # "" THEN before
          ELSE IF info.exc # "" THEN Raise(info.exc, EmptyTracks)
          ELSE Ret(append_track(before.val, children[n].tag, info.val))

\* What parse_als gives back: kind "error" is the dict {"error": reason},
\* kind "model" is the project dict, kind "raise" is an exception leaving
\* parse_als (error then holds its type).
\* What parse_als reads off the root besides the tracks: whether
\* project_info has a key and a loop, the named locators, the master track
\* ("none", "bare" without a mixer, "mixer") and the named scenes.
NoInfo ==
  [key |-> FALSE, loop |-> FALSE, locators |-> <<>>, master |-> "none", scenes |-> <<>>]

\* The key is there for a <ScaleInformation> whose RootNote is in 0..11, the
\* loop when the <Transport> has LoopOn "true".
parse_project_info(doc) ==
  [key |-> /\ doc.scale.present /\ doc.scale.RootNote.ok
           /\ 0 <= doc.scale.RootNote.num /\ doc.scale.RootNote.num < 12,
   loop |-> doc.LoopOn]

\* The locators with a name, in document order, each with its formatted time.
parse_locators(doc) ==
  LET named == SelectSeq(doc.locators, LAMBDA loc : loc.Name # "")
  IN [k \in DOMAIN named |-> [name |-> named[k].Name, time |-> format_beats(named[k].Time)]]

\* name.startswith("Scene ") on the scene names of the model.
startswith_Scene(name) == name \in {"Scene 1", "Scene 2"}

\* The scenes with a name of their own, each with its 1-based position
\* among all scenes.
parse_scenes(doc) ==
  LET RECURSIVE scenes(_)
      scenes(n) ==
        IF n = 0 THEN <<>>
        ELSE IF doc.scenes[n] # "" /\ ~startswith_Scene(doc.scenes[n])
             THEN Append(scenes(n - 1), [index |-> n, name |-> doc.scenes[n]])
             ELSE scenes(n - 1)
  IN scenes(Len(doc.scenes))

ErrorResult(reason) ==
  [kind |-> "error", error |-> reason, tracks |-> EmptyTracks, info |-> NoInfo]
Raised(exc) == [kind |-> "raise", error |-> exc, tracks |-> EmptyTracks, info |-> NoInfo]
Model(tracks, info) == [kind |-> "model", error |-> "", tracks |-> tracks, info |-> info]

parse_als(content) ==
  IF ~content.readable THEN ErrorResult("Permission denied")
  ELSE IF ~content.gzip_ok THEN ErrorResult("Not a gzipped file")
  ELSE IF ~content.wellformed THEN Raised("ParseError")
  ELSE LET tracks == collect_tracks(content.doc.tracks, Len(content.doc.tracks))
       IN IF tracks.exc # "" THEN Raised(tracks.exc)
          ELSE Model(tracks.val,
                     [key |-> parse_project_info(content.doc).key,
                      loop |-> parse_project_info(content.doc).loop,
                      locators |-> parse_locators(content.doc),
                      master |-> content.doc.master,
                      scenes |-> parse_scenes(content.doc)])

(* ---------------------------- format_output ---------------------------- *)
RECURSIVE Flatten(_)
Flatten(ss) == IF ss = <<>> THEN <<>> ELSE Head(ss) \o Flatten(Tail(ss))

Min(a, b) == IF a <= b THEN a ELSE b

format_clip(c) ==
  [L("clip", IF c.warp.present THEN c.warp.mode ELSE "", c.name, c.start)
     EXCEPT !.x = IF c.warp.present /\ c.warp.has_markers THEN c.warp.markers ELSE 0]

arrangement_lines(arr_clips) ==
  IF arr_clips = <<>> THEN <<>>
  ELSE <<L("Arrangement", "", Len(arr_clips), 0)>>
       \o [k \in DOMAIN arr_clips |-> format_clip(arr_clips[k])]

\* The remainder line is tested with >= instead of >.
session_lines_off_by_one(sess_clips) ==
  IF sess_clips = <<>> THEN <<>>
  ELSE <<L("Session Slots", "", Len(sess_clips), 0)>>
       \o [k \in 1..Min(SessionShown, Len(sess_clips)) |-> format_clip(sess_clips[k])]
       \o (IF Len(sess_clips) >= SessionShown
           THEN <<L("more in slots", "", Len(sess_clips) - SessionShown, 0)>>
           ELSE <<>>)

session_lines(sess_clips) ==
  IF sess_clips = <<>> THEN <<>>
  ELSE <<L("Session Slots", "", Len(sess_clips), 0)>>
       \o [k \in 1..Min(SessionShown, Len(sess_clips)) |-> format_clip(sess_clips[k])]
       \o (IF Len(sess_clips) > SessionShown
           THEN <<L("more in slots", "", Len(sess_clips) - SessionShown, 0)>>
           ELSE <<>>)

\* One pass of the loop over a kind's tracks: header line, clips.
track_lines(t, i) ==
  <<L("track", t.type, i, t.name)>>
  \o arrangement_lines(t.arrangement_clips)
  \o session_lines(t.session_clips)

section_lines(tracks, label) ==
  IF tracks = <<>> THEN <<>>
  ELSE <<L("rule40", "-", 40, 0), L("TRACKS", label, Len(tracks), 0)>>
       \o Flatten([i \in DOMAIN tracks |-> track_lines(tracks[i], i)])
       \o <<L("blank", "", 0, 0)>>

header_lines(p) ==
  <<L("rule60", "=", 60, 0), L("title", "ABLETON PROJECT SUMMARY", 0, 0),
    L("rule60", "=", 60, 0), L("Creator", "Unknown", 0, 0)>>
  \o (IF p.info.key THEN <<L("Key", "", 0, 0)>> ELSE <<>>)
  \o <<L("Tempo", "120 BPM", 0, 0), L("Time Signature", "4/4", 0, 0)>>
  \o (IF p.info.loop THEN <<L("Loop", "", 0, 0)>> ELSE <<>>)
  \o <<L("blank", "", 0, 0)>>

marker_lines(p) ==
  IF p.info.locators = <<>> THEN <<>>
  ELSE <<L("rule40", "-", 40, 0), L("MARKERS", "", 0, 0)>>
       \o [k \in DOMAIN p.info.locators |->
             L("marker", p.info.locators[k].name, p.info.locators[k].time, 0)]
       \o <<L("blank", "", 0, 0)>>

\* The master's Volume line is there when the master track has a mixer.
master_lines(p) ==
  IF p.info.master = "none" THEN <<>>
  ELSE <<L("rule40", "-", 40, 0), L("MASTER", "", 0, 0)>>
       \o (IF p.info.master = "mixer" THEN <<L("Volume", "0dB", 0, 0)>> ELSE <<>>)
       \o <<L("blank", "", 0, 0)>>

scene_lines(p) ==
  IF p.info.scenes = <<>> THEN <<>>
  ELSE <<L("rule40", "-", 40, 0), L("SCENES", "", 0, 0)>>
       \o [k \in DOMAIN p.info.scenes |->
             L("scene", p.info.scenes[k].name, p.info.scenes[k].index, 0)]
       \o <<L("blank", "", 0, 0)>>

\* The master section is written before the track sections.
summary_lines_master_first(p) ==
  header_lines(p)
  \o marker_lines(p)
  \o master_lines(p)
  \o section_lines(p.tracks.audio, "AUDIO")
  \o section_lines(p.tracks.midi, "MIDI")
  \o section_lines(p.tracks["return"], "RETURN")
  \o section_lines(p.tracks.group, "GROUP")
  \o scene_lines(p)
  \o <<L("rule60", "=", 60, 0)>>

\* The project summary: what format_output builds after its first line.
summary_lines(p) ==
  header_lines(p)
  \o marker_lines(p)
  \o section_lines(p.tracks.audio, "AUDIO")
  \o section_lines(p.tracks.midi, "MIDI")
  \o section_lines(p.tracks["return"], "RETURN")
  \o section_lines(p.tracks.group, "GROUP")
  \o master_lines(p)
  \o scene_lines(p)
  \o <<L("rule60", "=", 60, 0)>>

\* The error line is added to the summary instead of being returned alone.
format_output_no_early_return(p) ==
  (IF p.kind = "error" THEN <<L("ERROR", p.error, 0, 0)>> ELSE <<>>) \o summary_lines(p)

format_output(p) ==
  IF p.kind = "error" THEN <<L("ERROR", p.error, 0, 0)>> ELSE summary_lines(p)

(* --------------------------- generate_summary -------------------------- *)
NoSidecar == [exists |-> FALSE, text |-> <<>>]
NotCalled == [kind |-> "none", error |-> "", tracks |-> EmptyTracks, info |-> NoInfo]
Missing == [kind |-> "missing", error |-> "", tracks |-> EmptyTracks, info |-> NoInfo]

\* The try of generate_summary without its except: an exception of
\* parse_als leaves the call.
generate_summary_uncaught(als_path, d, sc) ==
  IF ~d[als_path].exists
  THEN [ret |-> FALSE, raised |-> FALSE, sidecar |-> sc[als_path], out |-> <<>>,
        err |-> <<L("Error: File not found", "", als_path, 0)>>, project |-> Missing]
  ELSE LET project == parse_als(d[als_path].content)
       IN IF project.kind = "raise"
          THEN [ret |-> FALSE, raised |-> TRUE, sidecar |-> sc[als_path], out |-> <<>>,
                err |-> <<>>, project |-> project]
          ELSE [ret |-> TRUE, raised |-> FALSE,
                sidecar |-> [exists |-> TRUE, text |-> format_output(project)],
                out |-> <<L("Generated", "", als_path, 0)>>, err |-> <<>>,
                project |-> project]

\* generate_summary(als_path) with the directory d and the sidecars sc:
\* ret is the value returned, raised whether an exception left the call,
\* sidecar is als_path + ".txt" afterwards, out/err are the lines printed.
generate_summary(als_path, d, sc) ==
  IF ~d[als_path].exists
  THEN [ret |-> FALSE, raised |-> FALSE, sidecar |-> sc[als_path], out |-> <<>>,
        err |-> <<L("Error: File not found", "", als_path, 0)>>, project |-> Missing]
  ELSE LET project == parse_als(d[als_path].content)
       IN IF project.kind = "raise"
          THEN [ret |-> FALSE, raised |-> FALSE, sidecar |-> sc[als_path], out |-> <<>>,
                err |-> <<L("Error processing", project.error, als_path, 0)>>,
                project |-> project]
          ELSE [ret |-> TRUE, raised |-> FALSE,
                sidecar |-> [exists |-> TRUE, text |-> format_output(project)],
                out |-> <<L("Generated", "", als_path, 0)>>, err |-> <<>>,
                project |-> project]

(* -------------------------------- watch -------------------------------- *)
\* The test is <= : a file is generated again on every poll.
changed_or_equal(known, recorded, als_path, m) ==
  als_path \notin known \/ recorded[als_path] <= m

\* als_path not in mtimes or mtimes[als_path] < mtime
changed(known, recorded, als_path, m) ==
  als_path \notin known \/ recorded[als_path] < m

\* The modification time is read again after the generation.
recorded_mtime_resampled(sampled, now) == now

\* mtimes[als_path] = mtime: the value sampled before generate_summary ran;
\* now is the file's modification time when the assignment is made.
recorded_mtime(sampled, now) == sampled

(* ------------------------------- inputs -------------------------------- *)
Paths == 1..MaxFiles

SeqsUpTo(S, n) == UNION {[1..k -> S] : k \in 0..n}
Perms(S) == {q \in [1..Cardinality(S) -> S] : \A a, b \in DOMAIN q : a # b => q[a] # q[b]}

\* An <AudioClip>/<MidiClip> element: its Time attribute, whether IsWarped
\* reads "true" (the default), its WarpMode value, its WarpMarker count.
Clip(tag, time, warped, mode) ==
  [tag |-> tag, Name |-> 0, Time |-> time, IsWarped |-> warped,
   WarpMode |-> mode, markers |-> 2]

\* The elements get the names base+1, base+2, ... in document order.
Named(elems, base) == [k \in DOMAIN elems |-> [elems[k] EXCEPT !.Name = base + k]]

\* A child of <Tracks>: tag, the clips under ArrangerAutomation/Events and
\* the clips under ClipSlotList, both in document order.
Track(tag, events, slots) == [tag |-> tag, Name |-> 0, events |-> events, slots |-> slots]

NameTracks(tracks) ==
  [t \in DOMAIN tracks |->
     [tracks[t] EXCEPT !.Name = t,
                       !.events = Named(@, 100 * t),
                       !.slots = Named(@, 100 * t + 50)]]

\* The root element: the tracks, <ScaleInformation>, the Transport's LoopOn,
\* the <Locator> elements, the <MasterTrack> and the <Scene> names.
Root(tracks, scale, LoopOn, locators, master, scenes) ==
  [tracks |-> NameTracks(tracks), scale |-> scale, LoopOn |-> LoopOn,
   locators |-> locators, master |-> master, scenes |-> scenes]

NoScale == [present |-> FALSE, RootNote |-> Num(0)]
Scale(RootNote) == [present |-> TRUE, RootNote |-> RootNote]

\* A document with tracks and nothing else under the root.
Doc(tracks) == Root(tracks, NoScale, FALSE, <<>>, "none", <<>>)

TimeValues == {Num(n) : n \in 0..MaxTime} \cup {BadValue}
GoodMidi == Clip("MidiClip", Num(0), TRUE, Num(0))
GoodAudio == Clip("AudioClip", Num(0), TRUE, Num(0))
BadTimeMidi == Clip("MidiClip", BadValue, TRUE, Num(0))

\* Documents with several tracks of any tag, each with at most one clip.
TrackShapes ==
  {Track(tag, ev, <<>>) : tag \in TrackTags \cup {OtherTag},
                          ev \in {<<>>, <<GoodMidi>>, <<BadTimeMidi>>}}
TrackDocs == {Doc(ts) : ts \in SeqsUpTo(TrackShapes, MaxTracks)}

\* Documents with one track and arrangement clips of every shape.
ArrShapes ==
  {Clip("AudioClip", t, TRUE, m) : t \in TimeValues, m \in {Num(0), BadValue}}
  \cup {Clip("MidiClip", t, TRUE, Num(0)) : t \in TimeValues}
ArrDocs == {Doc(<<Track("AudioTrack", ev, <<>>)>>) : ev \in SeqsUpTo(ArrShapes, MaxArr)}

\* Documents with one track and session clips.
SessShapes == {GoodMidi, GoodAudio, BadTimeMidi}
SessDocs == {Doc(<<Track("MidiTrack", <<>>, sl)>>) : sl \in SeqsUpTo(SessShapes, MaxSess)}

EmptyDoc == Doc(<<>>)

\* The bytes of a file, as open/gzip.decompress/ET.fromstring see them.
Unreadable == [readable |-> FALSE, gzip_ok |-> FALSE, wellformed |-> FALSE, doc |-> EmptyDoc]
NotGzip == [readable |-> TRUE, gzip_ok |-> FALSE, wellformed |-> FALSE, doc |-> EmptyDoc]
Malformed == [readable |-> TRUE, gzip_ok |-> TRUE, wellformed |-> FALSE, doc |-> EmptyDoc]
Project(doc) == [readable |-> TRUE, gzip_ok |-> TRUE, wellformed |-> TRUE, doc |-> doc]

BatchContents ==
  {Unreadable, NotGzip, Malformed, Project(EmptyDoc),
   Project(Doc(<<Track("AudioTrack", <<GoodAudio>>, <<GoodMidi>>)>>)),
   Project(Doc(<<Track("MidiTrack", <<BadTimeMidi>>, <<>>)>>))}

ParseContents ==
  {Unreadable, NotGzip, Malformed}
  \cup {Project(d) : d \in TrackDocs \cup ArrDocs \cup SessDocs}

Absent == [exists |-> FALSE, content |-> Unreadable]
Present(c) == [exists |-> TRUE, content |-> c]
OldSidecar == [exists |-> TRUE, text |-> <<L("old summary", "", 0, 0)>>]

(* ------------------------------- state --------------------------------- *)
VARIABLES
  dir,        \* path -> the .als file there (exists, content)
  sidecar,    \* path -> the file path + ".txt" (exists, text)
  pc,         \* where generate_all is: "start", "loop", "done", "aborted"
  als_files,  \* generate_all's list
  i,          \* position of the generator in als_files
  success,    \* the running sum of generate_all
  calls,      \* path -> number of generate_summary calls on it
  ret,        \* path -> what the last call returned: "none", "True", "False"
  project,    \* path -> what parse_als gave in the last call
  stdout,
  stderr,
  call,       \* the last call of a formatter or extractor: fn, arg, out
  mtime,      \* path -> the modification time of the .als file there
  mtimes,     \* watch's dict: path -> the modification time last recorded
  seen,       \* the keys of watch's dict
  cur,        \* watch's local mtime
  mods,       \* number of modifications made by other processes so far
  snap,       \* the file as the generate_summary that watch is running saw it
  folder      \* PROJECT_DIR as the setup script finds and leaves it

xvars == <<call, mtime, mtimes, seen, cur, mods, snap, folder>>

vars == <<dir, sidecar, pc, als_files, i, success, calls, ret, project, stdout, stderr,
          call, mtime, mtimes, seen, cur, mods, snap, folder>>

NoCall == [fn |-> "", arg |-> <<>>, out |-> <<>>]

\* A folder the setup script has never run in, and no run of it.
\*   filters_dir   ".git-filters": "absent", a "dir", or a "file" of that name
\*   git           ".git": "absent", a "repo", a "dir" that is no repository,
\*                 or a "file" (a worktree or submodule link)
\*   semantic_py, generate_py, pre_commit
\*                 the two filter scripts and the hook: "absent", "old"
\*                 (any other text than this version writes) or "current"
\*   gitattributes, gitignore   "absent", the "user"'s own, or as "setup" writes
\*   config        the filter.als/diff.als settings: "unset", "user", "setup"
\*   is_existing   the script's variable
\*   at_start      what filters_dir was when the present run started
\*   written       what the present run has written so far
\*   runs          runs started so far
NoFolder ==
  [filters_dir |-> "absent", git |-> "absent", semantic_py |-> "absent",
   generate_py |-> "absent", pre_commit |-> "absent", gitattributes |-> "absent",
   gitignore |-> "absent", config |-> "unset", is_existing |-> FALSE,
   at_start |-> "absent", written |-> {}, runs |-> 0]

\* No formatter called yet, no watch loop running.
InitX ==
  /\ call = NoCall
  /\ mtime = [f \in Paths |-> 0]
  /\ mtimes = [f \in Paths |-> 0]
  /\ seen = {}
  /\ cur = 0
  /\ mods = 0
  /\ snap = Absent
  /\ folder = NoFolder

InitRun ==
  /\ pc = "start"
  /\ als_files = <<>>
  /\ i = 1
  /\ success = 0
  /\ calls = [f \in Paths |-> 0]
  /\ ret = [f \in Paths |-> "none"]
  /\ project = [f \in Paths |-> NotCalled]
  /\ stdout = <<>>
  /\ stderr = <<>>
  /\ InitX

\* A directory of up to MaxFiles .als files, some with a summary already.
Init ==
  /\ dir \in [Paths -> {Absent} \cup {Present(c) : c \in BatchContents}]
  /\ sidecar \in [Paths -> {NoSidecar, OldSidecar}]
  /\ InitRun

\* A directory with one .als file, of any content.
InitParse ==
  /\ \E c \in ParseContents : dir = [f \in Paths |-> IF f = 1 THEN Present(c) ELSE Absent]
  /\ \E s \in {NoSidecar, OldSidecar} :
        sidecar = [f \in Paths |-> IF f = 1 THEN s ELSE NoSidecar]
  /\ InitRun

(* ------------------------------ actions -------------------------------- *)
\* als_files = find_als_files(directory), in the order os.listdir gives.
FindAlsFiles ==
  /\ pc = "start"
  /\ \E order \in Perms({f \in Paths : dir[f].exists}) :
       /\ als_files' = order
       /\ IF order = <<>>
          THEN /\ pc' = "done"
               /\ stdout' = Append(stdout, L("No .als files found.", "", 0, 0))
          ELSE /\ pc' = "loop"
               /\ stdout' = Append(stdout, L("Found", "", Len(order), 0))
  /\ UNCHANGED <<dir, sidecar, i, success, calls, ret, project, stderr>>
  /\ UNCHANGED xvars

\* One step of sum(1 for f in als_files if generate_summary(f)).
GenerateSummary ==
  /\ pc = "loop"
  /\ i <= Len(als_files)
  /\ LET f == als_files[i]
         r == generate_summary(f, dir, sidecar)
     IN /\ sidecar' = [sidecar EXCEPT ![f] = r.sidecar]
        /\ calls' = [calls EXCEPT ![f] = @ + 1]
        /\ project' = [project EXCEPT ![f] = r.project]
        /\ stdout' = stdout \o r.out
        /\ stderr' = stderr \o r.err
        /\ IF r.raised
           THEN /\ pc' = "aborted"
                /\ UNCHANGED <<i, success, ret>>
           ELSE /\ pc' = pc
                /\ i' = i + 1
                /\ ret' = [ret EXCEPT ![f] = IF r.ret THEN "True" ELSE "False"]
                /\ success' = IF r.ret THEN success + 1 ELSE success
  /\ UNCHANGED <<dir, als_files>>
  /\ UNCHANGED xvars

\* print(f"\nGenerated {success}/{len(als_files)} summaries")
Report ==
  /\ pc = "loop"
  /\ i > Len(als_files)
  /\ pc' = "done"
  /\ stdout' = Append(stdout, L("Generated summaries", "", success, Len(als_files)))
  /\ UNCHANGED <<dir, sidecar, als_files, i, success, calls, ret, project, stderr>>
  /\ UNCHANGED xvars

\* Another process deletes an .als file while generate_all or watch runs.
RemoveFile ==
  /\ pc \in {"start", "loop", "while", "for", "generate", "write", "record"}
  /\ \E f \in Paths :
       /\ dir[f].exists
       /\ dir' = [dir EXCEPT ![f] = Absent]
  /\ UNCHANGED <<sidecar, pc, als_files, i, success, calls, ret, project, stdout, stderr>>
  /\ UNCHANGED xvars

Next == FindAlsFiles \/ GenerateSummary \/ Report \/ RemoveFile

Spec == Init /\ [][Next]_vars

SpecParse == InitParse /\ [][Next]_vars

(* -------------------------------- watch -------------------------------- *)
\* Versions of a project file that other processes write while watch runs.
WatchContents ==
  {Project(EmptyDoc), Project(Root(<<>>, NoScale, TRUE, <<>>, "none", <<>>))}

\* watch() is followed on a directory of at most two project files.
Watched == {f \in Paths : f <= 2}

\* watch() starts on a directory of .als files that have never been summarised.
InitWatch ==
  /\ dir \in [Paths -> {Absent, Present(Project(EmptyDoc))}]
  /\ \A f \in Paths \ Watched : ~dir[f].exists
  /\ sidecar = [f \in Paths |-> NoSidecar]
  /\ pc = "while"
  /\ als_files = <<>>
  /\ i = 1
  /\ success = 0
  /\ calls = [f \in Paths |-> 0]
  /\ ret = [f \in Paths |-> "none"]
  /\ project = [f \in Paths |-> NotCalled]
  /\ stdout = <<>>
  /\ stderr = <<>>
  /\ InitX

\* for als_path in find_als_files(directory)
WatchPoll ==
  /\ pc = "while"
  /\ \E order \in Perms({f \in Paths : dir[f].exists}) : als_files' = order
  /\ i' = 1
  /\ pc' = "for"
  /\ UNCHANGED <<dir, sidecar, success, calls, ret, project, stdout, stderr>>
  /\ UNCHANGED xvars

\* mtime = os.path.getmtime(als_path) and the test; OSError (the file is
\* gone) skips the file.
WatchSample ==
  /\ pc = "for"
  /\ i <= Len(als_files)
  /\ LET als_path == als_files[i] IN
       IF ~dir[als_path].exists
       THEN /\ i' = i + 1
            /\ UNCHANGED <<pc, cur, stdout>>
       ELSE /\ cur' = mtime[als_path]
            /\ IF changed(seen, mtimes, als_path, mtime[als_path])
               THEN /\ pc' = "generate"
                    /\ stdout' = IF als_path \in seen
                                 THEN Append(stdout, L("Detected change", "", als_path, 0))
                                 ELSE stdout
                    /\ i' = i
               ELSE /\ i' = i + 1
                    /\ UNCHANGED <<pc, stdout>>
  /\ UNCHANGED <<dir, sidecar, als_files, success, calls, ret, project, stderr>>
  /\ UNCHANGED <<call, mtime, mtimes, seen, mods, snap, folder>>

\* generate_summary is entered: os.path.exists and parse_als read the file.
WatchRead ==
  /\ pc = "generate"
  /\ snap' = dir[als_files[i]]
  /\ calls' = [calls EXCEPT ![als_files[i]] = @ + 1]
  /\ pc' = "write"
  /\ UNCHANGED <<dir, sidecar, als_files, i, success, ret, project, stdout, stderr>>
  /\ UNCHANGED <<call, mtime, mtimes, seen, cur, mods, folder>>

\* generate_summary writes the summary of what it read, and returns.
WatchWrite ==
  /\ pc = "write"
  /\ \E f \in {als_files[i]} :
       \E r \in {generate_summary(f, [dir EXCEPT ![f] = snap], sidecar)} :
         /\ sidecar' = [sidecar EXCEPT ![f] = r.sidecar]
         /\ project' = [project EXCEPT ![f] = r.project]
         /\ ret' = [ret EXCEPT ![f] = IF r.ret THEN "True" ELSE "False"]
         /\ stdout' = stdout \o r.out
         /\ stderr' = stderr \o r.err
  /\ pc' = "record"
  /\ UNCHANGED <<dir, als_files, i, success, calls>>
  /\ UNCHANGED xvars

\* mtimes[als_path] = mtime
WatchRecord ==
  /\ pc = "record"
  /\ LET f == als_files[i] IN
       /\ mtimes' = [mtimes EXCEPT ![f] = recorded_mtime(cur, mtime[f])]
       /\ seen' = seen \cup {f}
  /\ i' = i + 1
  /\ pc' = "for"
  /\ UNCHANGED <<dir, sidecar, als_files, success, calls, ret, project, stdout, stderr>>
  /\ UNCHANGED <<call, mtime, cur, mods, snap, folder>>

\* time.sleep(interval) after the last file, then the next poll.
WatchSleep ==
  /\ pc = "for"
  /\ i > Len(als_files)
  /\ pc' = "while"
  /\ UNCHANGED <<dir, sidecar, als_files, i, success, calls, ret, project, stdout, stderr>>
  /\ UNCHANGED xvars

\* Another process saves a project file: other content, a later
\* modification time.
ModifyFile ==
  /\ mods < MaxMods
  /\ \E f \in Paths, c \in WatchContents :
       /\ dir[f].exists
       /\ c # dir[f].content
       /\ dir' = [dir EXCEPT ![f] = Present(c)]
       /\ mtime' = [mtime EXCEPT ![f] = @ + 1]
  /\ mods' = mods + 1
  /\ UNCHANGED <<sidecar, pc, als_files, i, success, calls, ret, project, stdout, stderr>>
  /\ UNCHANGED <<call, mtimes, seen, cur, snap, folder>>

\* The steps of watch itself.
WatchStep ==
  WatchPoll \/ WatchSample \/ WatchRead \/ WatchWrite \/ WatchRecord \/ WatchSleep

NextWatch ==
  \/ WatchPoll
  \/ WatchSample
  \/ WatchRead
  \/ WatchWrite
  \/ WatchRecord
  \/ WatchSleep
  \/ ModifyFile
  \/ RemoveFile

\* The loop keeps running: it only sleeps between two polls.
SpecWatch == InitWatch /\ [][NextWatch]_vars /\ WF_vars(WatchStep)

(* --------------------- formatters, called one by one ------------------- *)
\* A name containing "timesec" contains "time", one containing "resonance"
\* contains "on".
CloseName(ks) ==
  ks \cup (IF "timesec" \in ks THEN {"time"} ELSE {})
     \cup (IF "resonance" \in ks THEN {"on"} ELSE {})

\* Names with at most MaxKeywords keywords written into them.
ParamNames == {CloseName(ks) : ks \in {k \in SUBSET Keywords : Cardinality(k) <= MaxKeywords}}

ParamValues ==
  {Dec(m) : m \in {-500, 0, 5, 500, 1000, 1500, 9999, 10000, 999500, 1000000, 1250000}}
  \cup {BadValue}

\* No file, no generate_all: only calls of single functions.
InitFormat ==
  /\ dir = [f \in Paths |-> Absent]
  /\ sidecar = [f \in Paths |-> NoSidecar]
  /\ InitRun

\* Pan positions in thousandths, from hard left to hard right.
PanValues ==
  {Dec(m) : m \in {-1000, -350, -10, -9, 0, 9, 10, 20, 35, 500, 990, 1000}}
  \cup {BadValue}

\* Linear gains in thousandths.
GainValues ==
  {Dec(m) : m \in {-1000, 0, 1, 100, 500, 700, 990, 1000, 1010, 1012, 1500, 2000,
                   10000, 100000}}
  \cup {BadValue}

\* The children a device of the model is made of.
PlainChildren ==
  {Child("", t, -1, "", "value", Dec(500)) : t \in {"Frequency", "Annotation", "On"}}
  \cup {Child("", "Frequency", -1, "", m, Dec(0)) : m \in {"none", "empty"}}
DisplayNameChildren ==
  {Child("MacroDisplayNames.", "", 0, n, "none", Dec(0)) :
     n \in {"", "Macro 1", "Filter", "Annotation", "Frequency"}}
  \cup {Child("MacroDisplayNames.", "", 1, "Gain", "none", Dec(0))}
MacroChildren ==
  {Child("MacroControls.", "", 0, "", m, Dec(250)) : m \in {"none", "empty", "value"}}
  \cup {Child("MacroControls.", "", k, "", "value", Dec(1000)) : k \in {-1, 1}}
Children == PlainChildren \cup DisplayNameChildren \cup MacroChildren

DeviceTags == {"InstrumentGroupDevice", "AudioEffectGroupDevice", "Eq8"}

Devices ==
  {[tag |-> t, children |-> c] : t \in DeviceTags, c \in SeqsUpTo(Children, MaxChildren)}

\* Audio and MIDI clips with every warp setting.
WarpClips ==
  {[tag |-> t, Name |-> 1, Time |-> Num(0), IsWarped |-> w, WarpMode |-> m,
    markers |-> k] :
     t \in {"AudioClip", "MidiClip"}, w \in BOOLEAN,
     m \in {Num(n) : n \in 0..7} \cup {BadValue}, k \in 0..MaxMarkers}

\* Session clips with every follow action, FollowTime up to MaxBeats beats.
FollowClips ==
  {[FollowActionEnabled |-> e, FollowActionA |-> a, FollowTime |-> t] :
     e \in BOOLEAN, a \in {Num(n) : n \in 0..9} \cup {BadValue},
     t \in {Num(n) : n \in 0..MaxBeats} \cup {BadValue}}

\* Documents whose tracks are not in the order of the sections, with every
\* combination of the other parts being there or not.
SectionTracks ==
  {<<>>, <<Track("AudioTrack", <<GoodAudio>>, <<>>)>>,
   <<Track("GroupTrack", <<>>, <<>>), Track("MidiTrack", <<>>, <<GoodMidi>>)>>,
   <<Track("ReturnTrack", <<>>, <<>>), Track("GroupTrack", <<>>, <<>>),
     Track("MidiTrack", <<>>, <<>>), Track("AudioTrack", <<>>, <<>>)>>}
SectionLocators ==
  {<<>>, <<[Name |-> "", Time |-> Num(0)]>>, <<[Name |-> "Intro", Time |-> Num(0)]>>,
   <<[Name |-> "Drop", Time |-> Num(4)], [Name |-> "", Time |-> BadValue]>>}
SectionScenes == {<<>>, <<"Scene 1">>, <<"", "Verse">>, <<"Verse", "Scene 2", "Chorus">>}
SectionDocs ==
  {Root(t, sc, lp, loc, m, scn) :
     t \in SectionTracks, sc \in {NoScale, Scale(Num(0)), Scale(Num(12)), Scale(BadValue)},
     lp \in BOOLEAN, loc \in SectionLocators, m \in {"none", "bare", "mixer"},
     scn \in SectionScenes}

\* Everything but the record of the call.
runvars == <<dir, sidecar, pc, als_files, i, success, calls, ret, project,
             stdout, stderr, mtime, mtimes, seen, cur, mods, snap, folder>>

FormatParam ==
  /\ call = NoCall
  /\ \E v \in ParamValues, n \in ParamNames :
       call' = [fn |-> "format_param", arg |-> [value |-> v, name |-> n],
                out |-> format_param(v, n)]
  /\ UNCHANGED runvars

FormatPan ==
  /\ call = NoCall
  /\ \E v \in PanValues :
       call' = [fn |-> "format_pan", arg |-> v, out |-> format_pan(v)]
  /\ UNCHANGED runvars

FormatDb ==
  /\ call = NoCall
  /\ \E v \in GainValues :
       call' = [fn |-> "format_db", arg |-> v, out |-> format_db(v)]
  /\ UNCHANGED runvars

DeviceParams ==
  /\ call = NoCall
  /\ \E dev \in Devices :
       call' = [fn |-> "device_params", arg |-> dev, out |-> device_params(dev)]
  /\ UNCHANGED runvars

\* parse_clip on one clip, and the clip's line when it returns.
ParseClip ==
  /\ call = NoCall
  /\ \E clip \in WarpClips :
       LET c == parse_clip(clip)
       IN call' = [fn |-> "parse_clip", arg |-> clip,
                   out |-> [clip |-> c,
                            line |-> format_clip(IF c.exc = "" THEN c.val ELSE NoClipInfo)]]
  /\ UNCHANGED runvars

ParseLaunchSettings ==
  /\ call = NoCall
  /\ \E clip \in FollowClips :
       call' = [fn |-> "parse_launch_settings", arg |-> clip,
                out |-> parse_launch_settings(clip)]
  /\ UNCHANGED runvars

\* The textconv filter on one project file: print(format_output(parse_als(f))).
Textconv ==
  /\ call = NoCall
  /\ \E doc \in SectionDocs :
       call' = [fn |-> "textconv", arg |-> doc,
                out |-> format_output(parse_als(Project(doc)))]
  /\ UNCHANGED runvars

NextFormat ==
  \/ Textconv
  \/ FormatParam
  \/ FormatPan
  \/ FormatDb
  \/ DeviceParams
  \/ ParseClip
  \/ ParseLaunchSettings

SpecFormat == InitFormat /\ [][NextFormat]_vars

(* ============================ the setup script ========================= *)
\* What a run of the setup script does not touch: the .als files, their
\* summaries until generate-summary.py --all runs, and the watch loop.
besides_setup ==
  <<dir, sidecar, als_files, i, success, calls, ret, project, stderr,
    call, mtime, mtimes, seen, cur, mods, snap>>

\* [f for f in os.listdir(PROJECT_DIR) if f.endswith('.als')]
setup_als_files == {f \in Paths : dir[f].exists}

\* os.path.exists(filters_dir): a file of that name exists too.
path_exists(entry) == entry # "absent"

\* The test in front of the block that writes .gitattributes and .gitignore
\* and configures git.
new_project_always(existing) == TRUE
new_project(existing) == ~existing

\* A folder as a run can find it: with or without .als files, .git-filters and
\* .git, the scripts and the hook of an earlier version, and the user's own
\* .gitattributes, .gitignore and git settings.
Folders ==
  {[NoFolder EXCEPT !.filters_dir = fd, !.semantic_py = sc, !.generate_py = sc,
                    !.git = g, !.pre_commit = h, !.gitattributes = ga,
                    !.gitignore = gi, !.config = cf] :
     fd \in {"absent", "dir", "file"}, sc \in {"absent", "old"},
     g \in {"absent", "repo", "file"}, h \in {"absent", "old"},
     ga \in {"absent", "user"}, gi \in {"absent", "user"},
     cf \in {"unset", "user"}}

InitSetup ==
  /\ dir \in [Paths -> {Absent, Present(Project(EmptyDoc))}]
  /\ sidecar = [f \in Paths |-> NoSidecar]
  /\ pc = "setup"
  /\ als_files = <<>>
  /\ i = 1
  /\ success = 0
  /\ calls = [f \in Paths |-> 0]
  /\ ret = [f \in Paths |-> "none"]
  /\ project = [f \in Paths |-> NotCalled]
  /\ stdout = <<>>
  /\ stderr = <<>>
  /\ call = NoCall
  /\ mtime = [f \in Paths |-> 0]
  /\ mtimes = [f \in Paths |-> 0]
  /\ seen = {}
  /\ cur = 0
  /\ mods = 0
  /\ snap = Absent
  /\ folder \in {fo \in Folders :
                   /\ fo.filters_dir # "dir" => fo.semantic_py = "absent"
                   /\ fo.git # "repo" => fo.pre_commit = "absent" /\ fo.config = "unset"
                   /\ fo.runs = 0}

\* The check for .als files and the detection of an existing project.
SetupDetect ==
  /\ pc = "setup"
  /\ IF setup_als_files = {}
     THEN /\ pc' = "exit1"
          /\ stdout' = Append(stdout, L("ERROR: No .als files found in this folder", "", 0, 0))
          /\ folder' = [folder EXCEPT !.at_start = folder.filters_dir,
                                      !.written = {}, !.runs = @ + 1]
     ELSE /\ pc' = "git_init"
          /\ folder' = [folder EXCEPT !.is_existing = path_exists(folder.filters_dir),
                                      !.at_start = folder.filters_dir,
                                      !.written = {}, !.runs = @ + 1]
          /\ stdout' = Append(stdout,
                         IF path_exists(folder.filters_dir)
                         THEN L("Updating Ableton git workflow in", "", 0, 0)
                         ELSE L("Setting up Ableton git workflow in", "", 0, 0))
  /\ UNCHANGED besides_setup

\* git init where there is no .git; its result is not looked at.
SetupGitInit ==
  /\ pc = "git_init"
  /\ pc' = "makedirs"
  /\ IF path_exists(folder.git)
     THEN UNCHANGED <<folder, stdout>>
     ELSE /\ stdout' = Append(stdout, L("Initializing git repository...", "", 0, 0))
          /\ \E g \in {"repo", "absent"} : folder' = [folder EXCEPT !.git = g]
  /\ UNCHANGED besides_setup

\* os.makedirs(filters_dir, exist_ok=True) raises where filters_dir is a file.
SetupMakeFiltersDir ==
  /\ pc = "makedirs"
  /\ IF folder.filters_dir = "file"
     THEN /\ pc' = "crashed"
          /\ UNCHANGED folder
     ELSE /\ pc' = "semantic_py"
          /\ folder' = [folder EXCEPT !.filters_dir = "dir"]
  /\ UNCHANGED stdout
  /\ UNCHANGED besides_setup

SetupWriteSemantic ==
  /\ pc = "semantic_py"
  /\ pc' = "generate_py"
  /\ stdout' = Append(stdout, L("Writing .git-filters/als-textconv-semantic.py...", "", 0, 0))
  /\ folder' = [folder EXCEPT !.semantic_py = "current",
                              !.written = @ \cup {"semantic_py"}]
  /\ UNCHANGED besides_setup

SetupWriteGenerate ==
  /\ pc = "generate_py"
  /\ pc' = "pre_commit"
  /\ stdout' = Append(stdout, L("Writing .git-filters/generate-summary.py...", "", 0, 0))
  /\ folder' = [folder EXCEPT !.generate_py = "current",
                              !.written = @ \cup {"generate_py"}]
  /\ UNCHANGED besides_setup

\* os.makedirs(hooks_dir, exist_ok=True) makes .git where git init made none,
\* and raises where .git is a file.
SetupWriteHook ==
  /\ pc = "pre_commit"
  /\ stdout' = Append(stdout, L("Writing .git/hooks/pre-commit...", "", 0, 0))
  /\ IF folder.git = "file"
     THEN /\ pc' = "crashed"
          /\ UNCHANGED folder
     ELSE /\ pc' = "new_only"
          /\ folder' = [folder EXCEPT !.git = IF @ = "absent" THEN "dir" ELSE @,
                                      !.pre_commit = "current",
                                      !.written = @ \cup {"pre_commit"}]
  /\ UNCHANGED besides_setup

\* if not is_existing: .gitattributes, .gitignore and the three git config
\* calls, which set nothing where .git is no repository; then the line that
\* announces generate-summary.py --all.
SetupNewProject ==
  /\ pc = "new_only"
  /\ pc' = "start"
  /\ IF new_project(folder.is_existing)
     THEN /\ folder' = [folder EXCEPT
                         !.gitattributes = "setup", !.gitignore = "setup",
                         !.config = IF folder.git = "repo" THEN "setup" ELSE @,
                         !.written = @ \cup {"gitattributes", "gitignore"}
                                       \cup IF folder.git = "repo" THEN {"config"} ELSE {}]
          /\ stdout' = stdout \o <<L("Creating .gitattributes...", "", 0, 0),
                                   L("Creating .gitignore...", "", 0, 0),
                                   L("Configuring git...", "", 0, 0),
                                   L("Generating summaries for .als files...", "", 0, 0)>>
     ELSE /\ UNCHANGED folder
          /\ stdout' = Append(stdout, L("Generating summaries for .als files...", "", 0, 0))
  /\ UNCHANGED besides_setup

\* The closing message, once generate-summary.py --all has returned.
SetupComplete ==
  /\ pc = "done"
  /\ folder.runs > 0
  /\ pc' = "complete"
  /\ stdout' = Append(stdout, IF folder.is_existing THEN L("Update complete!", "", 0, 0)
                                                    ELSE L("Setup complete!", "", 0, 0))
  /\ UNCHANGED folder
  /\ UNCHANGED besides_setup

\* The user runs the script again in the folder the last run left.
SetupAgain ==
  /\ pc \in {"exit1", "crashed", "complete"}
  /\ folder.runs < MaxRuns
  /\ pc' = "setup"
  /\ als_files' = <<>>
  /\ i' = 1
  /\ success' = 0
  /\ calls' = [f \in Paths |-> 0]
  /\ ret' = [f \in Paths |-> "none"]
  /\ project' = [f \in Paths |-> NotCalled]
  /\ stdout' = <<>>
  /\ stderr' = <<>>
  /\ UNCHANGED <<dir, sidecar, folder>>
  /\ UNCHANGED <<call, mtime, mtimes, seen, cur, mods, snap>>

NextSetup ==
  \/ SetupDetect
  \/ SetupGitInit
  \/ SetupMakeFiltersDir
  \/ SetupWriteSemantic
  \/ SetupWriteGenerate
  \/ SetupWriteHook
  \/ SetupNewProject
  \/ FindAlsFiles
  \/ GenerateSummary
  \/ Report
  \/ SetupComplete
  \/ SetupAgain

SpecSetup == InitSetup /\ [][NextSetup]_vars

(* ======================= properties of the model ======================= *)
Called(f) == calls[f] > 0
\* The file is still the one the last call on it read.
Readable(f) == dir[f].exists /\ dir[f].content.readable
BadCompression(f) == Readable(f) /\ ~dir[f].content.gzip_ok
MalformedDocument(f) ==
  Readable(f) /\ dir[f].content.gzip_ok /\ ~dir[f].content.wellformed
Decodes(f) == Readable(f) /\ dir[f].content.gzip_ok /\ dir[f].content.wellformed
SummaryKinds ==
  {"rule60", "title", "Creator", "Tempo", "Time Signature", "blank", "rule40",
   "TRACKS", "track", "Arrangement", "Session Slots", "clip", "more in slots",
   "Key", "Loop", "MARKERS", "marker", "MASTER", "Volume", "SCENES", "scene"}

\* C1: a file that cannot be read or decompressed gives an error result with
\* the reason, and its rendering is the one line "ERROR: <reason>", with no
\* line of a project summary.
C1_ErrorResultIsOneLine ==
  \A f \in Paths :
    Called(f) /\ dir[f].exists /\ (~dir[f].content.readable \/ BadCompression(f)) =>
      /\ project[f].kind = "error"
      /\ project[f].error =
           (IF dir[f].content.readable THEN "Not a gzipped file" ELSE "Permission denied")
      /\ sidecar[f].exists
      /\ Len(sidecar[f].text) = 1
      /\ sidecar[f].text[1].kind = "ERROR"
      /\ sidecar[f].text[1].txt = project[f].error
      /\ \A k \in DOMAIN sidecar[f].text : sidecar[f].text[k].kind \notin SummaryKinds

C1_Witness ==
  \E f \in Paths :
    /\ Called(f) /\ BadCompression(f)
    /\ project[f].kind = "error"
    /\ sidecar[f].text = <<L("ERROR", "Not a gzipped file", 0, 0)>>

\* C2: a file that decompresses to a malformed document gives an error
\* result carrying the reason, as a decompression failure does.
C2_MalformedGivesErrorResult ==
  \A f \in Paths :
    Called(f) /\ MalformedDocument(f) =>
      project[f].kind = "error" /\ project[f].error # ""

\* C3: generate_summary neither creates nor overwrites the sidecar of a file
\* that fails to decode (bad compression or malformed document).
C3_DecodeFailureLeavesSidecar ==
  [][\A f \in Paths :
       BadCompression(f) \/ MalformedDocument(f) => sidecar'[f] = sidecar[f]]_vars

\* C4: a conversion that fails (file missing, bytes not decompressible,
\* document malformed) returns False with a diagnostic naming the file and
\* the reason, and is not counted in the success total.
FailedConversion(f) ==
  Called(f) /\ (project[f].kind = "missing" \/ BadCompression(f) \/ MalformedDocument(f))

C4_FailureReported ==
  /\ \A f \in Paths :
       FailedConversion(f) =>
         /\ ret[f] = "False"
         /\ \E k \in DOMAIN stderr : stderr[k].n = f
  /\ pc = "done" =>
       success <= Cardinality({f \in Paths : Called(f) /\ ~FailedConversion(f)})

\* C5: generate_all calls generate_summary exactly once on every file of its
\* list, whatever the earlier calls did: no failure ends the loop early.
C5_EveryFileSummarisedOnce ==
  /\ pc # "aborted"
  /\ \A k \in DOMAIN als_files :
       calls[als_files[k]] = (IF pc = "done" \/ k < i THEN 1 ELSE 0)
  /\ \A f \in Paths : (\A k \in DOMAIN als_files : als_files[k] # f) => calls[f] = 0
  /\ pc = "done" => i = Len(als_files) + 1

C5_Witness ==
  /\ pc = "done"
  /\ Len(als_files) >= 2
  /\ project[als_files[1]].kind = "raise"
  /\ ret[als_files[1]] = "False"
  /\ calls[als_files[2]] = 1

\* C6: a document that decodes always gives a model: no field value makes
\* parse_als fail.
C6_DecodedDocumentGivesModel ==
  \A f \in Paths : Called(f) /\ Decodes(f) => project[f].kind = "model"

\* C7 (two runs on the same input give the same text) relates two
\* behaviours; it has no formula over the states of one.

(* ------------------- reading a summary back, by lines ------------------ *)
Kinds == {"audio", "midi", "return", "group"}
KindOfTag ==
  ("AudioTrack" :> "audio") @@ ("MidiTrack" :> "midi")
  @@ ("ReturnTrack" :> "return") @@ ("GroupTrack" :> "group")
AllTracks(p) ==
  p.tracks.audio \o p.tracks.midi \o p.tracks["return"] \o p.tracks.group
Names(s) == [k \in DOMAIN s |-> s[k].name]
LineNames(s) == [k \in DOMAIN s |-> s[k].n]
Range(s) == {s[k] : k \in DOMAIN s}

\* The first index from `from` on whose line satisfies stop, else Len + 1.
FirstFrom(text, from, stop(_)) ==
  IF \E j \in from..Len(text) : stop(text[j])
  THEN CHOOSE j \in from..Len(text) :
         stop(text[j]) /\ \A j2 \in from..(j - 1) : ~stop(text[j2])
  ELSE Len(text) + 1

\* The lines under the header of the track called name, up to the next
\* track header or the blank line that ends the section.
BlockOf(text, name) ==
  LET h == CHOOSE j \in DOMAIN text : text[j].kind = "track" /\ text[j].m = name
      e == FirstFrom(text, h + 1, LAMBDA l : l.kind \in {"track", "blank"})
  IN SubSeq(text, h + 1, e - 1)

HasHeader(text, name) == \E j \in DOMAIN text : text[j].kind = "track" /\ text[j].m = name

\* The clip lines that follow the line of kind head in a block.
RunAfter(block, head) ==
  IF \E j \in DOMAIN block : block[j].kind = head
  THEN LET j == CHOOSE j \in DOMAIN block : block[j].kind = head
           e == FirstFrom(block, j + 1, LAMBDA l : l.kind # "clip")
       IN SubSeq(block, j + 1, e - 1)
  ELSE <<>>

\* The input element parse_track made the info from.
ElemOf(f, t) ==
  CHOOSE e \in Range(dir[f].content.doc.tracks) : e.Name = t.name

Parsed(f) == Called(f) /\ Decodes(f) /\ project[f].kind = "model"

\* C8 as stated: every child of Tracks is in exactly one of the four lists.
C8_EveryChildInOneList ==
  \A f \in Paths :
    Parsed(f) =>
      \A e \in Range(dir[f].content.doc.tracks) :
        Cardinality({k \in Kinds :
                      \E j \in DOMAIN project[f].tracks[k] :
                        project[f].tracks[k][j].name = e.Name}) = 1

\* C8 amended: every child of Tracks tagged AudioTrack, MidiTrack,
\* ReturnTrack or GroupTrack is once in the list of its kind and in no
\* other; a child with another tag is in none.
C8_KnownTagsPartitioned ==
  \A f \in Paths :
    Parsed(f) =>
      \A e \in Range(dir[f].content.doc.tracks), k \in Kinds :
        Cardinality({j \in DOMAIN project[f].tracks[k] :
                      project[f].tracks[k][j].name = e.Name})
          = (IF e.tag \in TrackTags /\ KindOfTag[e.tag] = k THEN 1 ELSE 0)

C8_Witness ==
  \E f \in Paths :
    /\ Parsed(f)
    /\ \E a, b \in Range(dir[f].content.doc.tracks) :
         a.tag = "ReturnTrack" /\ b.tag = OtherTag
    /\ Len(project[f].tracks["return"]) = 1
    /\ Len(AllTracks(project[f])) = 1

\* C9: a track's arrangement_clips holds its audio and MIDI arrangement
\* clips in ascending order of Time, and the summary shows all of them in
\* that order.
C9_ArrangementAscendingAndRendered ==
  \A f \in Paths :
    Parsed(f) =>
      \A t \in Range(AllTracks(project[f])) :
        LET arr == t.arrangement_clips
            shown == RunAfter(BlockOf(sidecar[f].text, t.name), "Arrangement")
        IN /\ \A a, b \in DOMAIN arr : a < b => arr[a].time_float <= arr[b].time_float
           /\ Len(arr) = Len(ElemOf(f, t).events)
           /\ Range(Names(arr)) = {c.Name : c \in Range(ElemOf(f, t).events)}
           /\ \A a \in DOMAIN arr :
                \E c \in Range(ElemOf(f, t).events) :
                  c.Name = arr[a].name /\ c.Time = Num(arr[a].time_float)
           /\ HasHeader(sidecar[f].text, t.name)
           /\ LineNames(shown) = Names(arr)

C9_Witness ==
  \E f \in Paths :
    /\ Parsed(f)
    /\ \E t \in Range(AllTracks(project[f])) :
         /\ Len(t.arrangement_clips) = 2
         /\ ElemOf(f, t).events[1].Time.num > ElemOf(f, t).events[2].Time.num
         /\ t.arrangement_clips[1].name = ElemOf(f, t).events[2].Name
         /\ Len(RunAfter(BlockOf(sidecar[f].text, t.name), "Arrangement")) = 2

\* C10: of a track's n session clips the summary shows the first
\* min(n, 3), then "... and (n-3) more in slots" exactly when n > 3; the
\* model keeps all n.
C10_SessionClipsCapped ==
  \A f \in Paths :
    Parsed(f) =>
      \A t \in Range(AllTracks(project[f])) :
        LET sess == t.session_clips
            n == Len(sess)
            block == BlockOf(sidecar[f].text, t.name)
            shown == RunAfter(block, "Session Slots")
            more == SelectSeq(block, LAMBDA l : l.kind = "more in slots")
        IN /\ n = Len(ElemOf(f, t).slots)
           /\ Range(Names(sess)) = {c.Name : c \in Range(ElemOf(f, t).slots)}
           /\ Len(shown) = Min(n, 3)
           /\ LineNames(shown) = SubSeq(Names(sess), 1, Min(n, 3))
           /\ Len(more) = (IF n > 3 THEN 1 ELSE 0)
           /\ n > 3 => more[1].n = n - 3 /\ block[Len(block)] = more[1]

C10_Witness ==
  \E f \in Paths :
    /\ Parsed(f)
    /\ \E t \in Range(AllTracks(project[f])) :
         LET block == BlockOf(sidecar[f].text, t.name)
         IN /\ Len(t.session_clips) = 4
            /\ Len(RunAfter(block, "Session Slots")) = 3
            /\ block[Len(block)] = L("more in slots", "", 1, 0)

(* ----------------------------- formatters ------------------------------ *)
\* The rules of format_param as the claim lists them, by number.
Rule1(v, name) ==
  /\ v = 0 \/ v = 1000
  /\ "time" \notin name /\ "rate" \notin name
  /\ name \cap {"on", "sync", "link", "freeze"} # {}
Rule2(v, name) ==
  /\ 0 <= v /\ v <= 1000
  /\ name \cap {"wet", "mix", "amount", "feedback", "depth", "gain", "drive",
                "resonance"} # {}
Rule3(v, name) == "freq" \in name /\ "mod" \notin name
Rule4(v, name) ==
  name \cap {"timesec", "attack", "release", "predelay"} # {} /\ v < 10000
FirstRule(v, name) ==
  IF Rule1(v, name) THEN 1 ELSE IF Rule2(v, name) THEN 2
  ELSE IF Rule3(v, name) THEN 3 ELSE IF Rule4(v, name) THEN 4 ELSE 5

\* The rule a result was written by, read off its unit.
RuleOfUnit(unit) ==
  CASE unit \in {"on", "off"} -> 1 [] unit = "%" -> 2 [] unit \in {"Hz", "kHz"} -> 3
    [] unit \in {"ms", "s"} -> 4 [] unit = "" -> 5 [] OTHER -> 0

\* C11: format_param gives the result of the first rule that matches, in
\* the order on/off, percentage, frequency, short time, fallback.
C11_FirstMatchingRule ==
  call.fn = "format_param" /\ call.arg.value.ok =>
    /\ RuleOfUnit(call.out.unit) = FirstRule(call.arg.value.num, call.arg.name)
    /\ call.out.unit = "%" => call.out.num = RoundDiv(call.arg.value.num, 10)
    /\ call.out.unit \in {"on", "off"} => (call.out.unit = "on" <=> call.arg.value.num = 1000)

\* "GainFreq" with 0.5 gives "50%".
C11_Witness ==
  /\ call.fn = "format_param"
  /\ call.arg = [value |-> Dec(500), name |-> {"gain", "freq"}]
  /\ call.out = Fmt(50, 0, "%")

\* C12: for a pan in [-1, 1], format_pan gives "C" exactly when |v| < 0.01,
\* and otherwise L or R, by the sign, with round(|v| * 50).
C12_PanRounded ==
  call.fn = "format_pan" /\ call.arg.ok =>
    LET v == call.arg.num IN
      /\ call.out.unit = "C" <=> Abs(v) < 10
      /\ Abs(v) >= 10 =>
           call.out = Fmt(RoundDiv(Abs(v) * 50, 1000), 0, IF v < 0 THEN "L" ELSE "R")

\* What format_pan does: the fraction of |v| * 50 is cut off, not rounded.
C12_PanTruncated ==
  call.fn = "format_pan" /\ call.arg.ok =>
    LET v == call.arg.num IN
      /\ call.out.unit = "C" <=> Abs(v) < 10
      /\ Abs(v) >= 10 =>
           /\ call.out.unit = (IF v < 0 THEN "L" ELSE "R")
           /\ call.out.num * 1000 <= Abs(v) * 50
           /\ Abs(v) * 50 < (call.out.num + 1) * 1000

\* 0.035 is formatted as "R1", where round(1.75) is 2.
C12_Witness ==
  call.fn = "format_pan" /\ call.arg = Dec(35) /\ call.out = Fmt(1, 0, "R")

\* C13: format_db is total: a non-positive gain gives "-inf", a level
\* within 0.1 dB of 0 gives "0dB", any other level is printed signed with one
\* decimal, without it when the level is a whole number; an unparseable
\* value gives "0dB".
C13_DbClassified ==
  call.fn = "format_db" =>
    IF ~call.arg.ok THEN call.out = Fmt(0, 0, "0dB")
    ELSE IF call.arg.num <= 0 THEN call.out = Fmt(0, 0, "-inf")
    ELSE LET level == db_of(call.arg.num) IN
      IF -100 < level /\ level < 100 THEN call.out = Fmt(0, 0, "0dB")
      ELSE /\ call.out.unit = "dB"
           /\ call.out.dec = (IF level % 1000 = 0 THEN 0 ELSE 1)
           /\ call.out.dec = 0 => call.out.num * 1000 = level
           /\ call.out.dec = 1 => Abs(call.out.num * 100 - level) <= 50

\* 10.0 gives "+20dB", 0.5 gives "-6.0dB".
C13_Witness ==
  call.fn = "format_db" /\ call.arg = Dec(10000) /\ call.out = Fmt(20, 0, "dB")

C13_WitnessDecimal ==
  call.fn = "format_db" /\ call.arg = Dec(500) /\ call.out = Fmt(-60, 1, "dB")

(* -------------------------- device parameters -------------------------- *)
ChildrenOf(dev) == {dev.children[n] : n \in DOMAIN dev.children}

CustomName(name) == name # "" /\ name \notin {"Macro 1", "Macro 2", "Macro 16"}

\* The custom display name of macro idx, "" when it has none; where a
\* document names one index twice, the last custom name.
LastDisplayName(dev, idx) ==
  LET at == {n \in DOMAIN dev.children :
               /\ dev.children[n].kind = "MacroDisplayNames."
               /\ dev.children[n].idx = idx
               /\ CustomName(dev.children[n].Value)}
  IN IF at = {} THEN ""
     ELSE dev.children[CHOOSE n \in at : \A o \in at : o <= n].Value

\* The keys that children other than macro controls put in the map.
PlainKeys(dev) ==
  {c.tag : c \in {d \in ChildrenOf(dev) : d.kind = "" /\ d.manual = "value"}}

\* The macro controls of dev that have a manual value and a readable index.
MacrosWithValue(dev) ==
  {c \in ChildrenOf(dev) : c.kind = "MacroControls." /\ c.manual = "value" /\ c.idx >= 0}

Shown(dev, c) ==
  endswith_GroupDevice(dev.tag) /\ CustomName(LastDisplayName(dev, c.idx))

\* C14: a macro control with a manual value appears in the parameter map
\* exactly when the device is a rack and the macro's index has a non-empty
\* display name that is not a default "Macro <number>"; it appears under that
\* name, with the formatted value.  A macro without a name, with a default
\* name, or of another device never appears.
C14_MacroShownIffCustomName ==
  call.fn = "device_params" =>
    LET dev == call.arg
        params == call.out
        shown == {c \in MacrosWithValue(dev) : Shown(dev, c)}
    IN /\ \A c \in shown :
            LET name == LastDisplayName(dev, c.idx) IN
              /\ name \in DOMAIN params
              /\ (Cardinality(shown) = 1 /\ name \notin PlainKeys(dev)) =>
                   params[name] = format_param(c.val, name_lower(name))
       /\ DOMAIN params \subseteq
            (PlainKeys(dev) \ ({"On"} \cup SKIP_PARAMS))
            \cup {LastDisplayName(dev, c.idx) : c \in shown}

\* A rack whose macro 0 is named "Filter" shows Filter=0.25.
C14_Witness ==
  /\ call.fn = "device_params"
  /\ endswith_GroupDevice(call.arg.tag)
  /\ \E c \in MacrosWithValue(call.arg) : LastDisplayName(call.arg, c.idx) = "Filter"
  /\ "Filter" \in DOMAIN call.out
  /\ call.out["Filter"] = Fmt(25, 2, "")

\* A rack whose macro 0 keeps "Macro 1", and a device that is no rack, show
\* no macro.
C14_WitnessDefault ==
  /\ call.fn = "device_params"
  /\ endswith_GroupDevice(call.arg.tag)
  /\ \E c \in MacrosWithValue(call.arg), d \in ChildrenOf(call.arg) :
       d.kind = "MacroDisplayNames." /\ d.idx = c.idx /\ d.Value = "Macro 1"
  /\ call.out = <<>>

\* C15: no key of a device's parameter map is a name of SKIP_PARAMS,
\* whatever the device's children and macro display names are.
C15_NoExcludedKey ==
  call.fn = "device_params" => DOMAIN call.out \cap SKIP_PARAMS = {}

\* C15, amended: no child whose tag is in SKIP_PARAMS puts a key in the map;
\* a key of SKIP_PARAMS is the custom display name of a rack macro.
C15_NoExcludedChild ==
  call.fn = "device_params" =>
    \A k \in DOMAIN call.out \cap SKIP_PARAMS :
      /\ endswith_GroupDevice(call.arg.tag)
      /\ \E c \in MacrosWithValue(call.arg) : LastDisplayName(call.arg, c.idx) = k
      /\ \E c \in MacrosWithValue(call.arg) :
           call.out[k] = format_param(c.val, name_lower(k))

\* An <Annotation> child with a manual value, and nothing of it in the map.
C15_Witness ==
  /\ call.fn = "device_params"
  /\ \E c \in ChildrenOf(call.arg) :
       c.kind = "" /\ c.tag = "Annotation" /\ c.manual = "value"
  /\ "Frequency" \in DOMAIN call.out
  /\ "Annotation" \notin DOMAIN call.out

(* ------------------------------ clips ---------------------------------- *)
\* The warp-mode table as the program's documentation gives it.
WarpModeName(n) ==
  CASE n = 0 -> "Beats" [] n = 1 -> "Tones" [] n = 2 -> "Texture" [] n = 3 -> "Re-Pitch"
    [] n = 4 -> "Complex" [] n = 6 -> "Complex Pro" [] OTHER -> "Unknown"

\* C16: an audio clip that is not warped, or warped with 0 markers, has no
\* warp info; warped with 1 or 2 markers it has the mode name alone; with 3
\* or more, the mode name and the marker count.  The name is the table's,
\* "Unknown" for an index that is not in the table.  (Stated for a WarpMode
\* that is an integer.)
C16_WarpInfoByMarkers ==
  (/\ call.fn = "parse_clip" /\ call.arg.tag = "AudioClip"
   /\ call.arg.WarpMode.ok) =>
    LET clip == call.arg
        warp == call.out.clip.val.warp
        line == call.out.line
    IN /\ call.out.clip.exc = ""
       /\ (~clip.IsWarped \/ clip.markers = 0) =>
            ~warp.present /\ line.txt = "" /\ line.x = 0
       /\ (clip.IsWarped /\ clip.markers \in {1, 2}) =>
            /\ warp.present /\ ~warp.has_markers
            /\ line.txt = WarpModeName(clip.WarpMode.num) /\ line.x = 0
       /\ (clip.IsWarped /\ clip.markers >= 3) =>
            /\ warp.present /\ warp.has_markers /\ warp.markers = clip.markers
            /\ line.txt = WarpModeName(clip.WarpMode.num) /\ line.x = clip.markers

\* A warped clip with 2 markers and mode 5 shows "warped: Unknown" alone.
C16_Witness ==
  /\ call.fn = "parse_clip" /\ call.arg.tag = "AudioClip"
  /\ call.arg.IsWarped /\ call.arg.markers = 2 /\ call.arg.WarpMode = Num(5)
  /\ call.out.line.txt = "Unknown" /\ call.out.line.x = 0

\* A warped clip with 3 markers shows its mode and "3 markers".
C16_WitnessMarkers ==
  /\ call.fn = "parse_clip" /\ call.arg.tag = "AudioClip"
  /\ call.arg.IsWarped /\ call.arg.markers = 3 /\ call.arg.WarpMode = Num(6)
  /\ call.out.line.txt = "Complex Pro" /\ call.out.line.x = 3

\* C17: parse_launch_settings reports a follow action only when it is
\* enabled and its action is not "none"; the text ends in "bar" when the
\* number shown is 1 and in "bars" for every other number shown.
C17_FollowAgreement ==
  call.fn = "parse_launch_settings" =>
    /\ call.out.present =>
         /\ call.arg.FollowActionEnabled
         /\ call.out.action # "none"
         /\ call.arg.FollowActionA # Num(0)
    /\ call.out.present => (call.out.unit = "bar" <=> call.out.n = 1)
    /\ call.out.present => call.out.unit \in {"bar", "bars"}

\* FollowTime 5 (1.25 bars) with action 4: "next @ 1 bars".
C17_Witness ==
  /\ call.fn = "parse_launch_settings"
  /\ call.arg = [FollowActionEnabled |-> TRUE, FollowActionA |-> Num(4),
                  FollowTime |-> Num(5)]
  /\ call.out = [present |-> TRUE, action |-> "next", n |-> 1, unit |-> "bars"]

(* ----------------------------- sections -------------------------------- *)
\* The place of a line in the fixed order, 0 for a line that opens nothing.
SectionRank(line) ==
  CASE line.kind = "Creator" -> 1
    [] line.kind = "Key" -> 2
    [] line.kind = "Tempo" -> 3
    [] line.kind = "Time Signature" -> 4
    [] line.kind = "Loop" -> 5
    [] line.kind = "MARKERS" -> 6
    [] line.kind = "TRACKS" /\ line.txt = "AUDIO" -> 7
    [] line.kind = "TRACKS" /\ line.txt = "MIDI" -> 8
    [] line.kind = "TRACKS" /\ line.txt = "RETURN" -> 9
    [] line.kind = "TRACKS" /\ line.txt = "GROUP" -> 10
    [] line.kind = "MASTER" -> 11
    [] line.kind = "SCENES" -> 12
    [] OTHER -> 0

RanksIn(text) == {SectionRank(text[k]) : k \in DOMAIN text} \ {0}

TagsIn(doc) == {doc.tracks[k].tag : k \in DOMAIN doc.tracks}

\* The sections a document has something for.
RanksDue(doc) ==
  {1, 3, 4}
  \cup (IF doc.scale = Scale(Num(0)) THEN {2} ELSE {})
  \cup (IF doc.LoopOn THEN {5} ELSE {})
  \cup (IF \E k \in DOMAIN doc.locators : doc.locators[k].Name # "" THEN {6} ELSE {})
  \cup (IF "AudioTrack" \in TagsIn(doc) THEN {7} ELSE {})
  \cup (IF "MidiTrack" \in TagsIn(doc) THEN {8} ELSE {})
  \cup (IF "ReturnTrack" \in TagsIn(doc) THEN {9} ELSE {})
  \cup (IF "GroupTrack" \in TagsIn(doc) THEN {10} ELSE {})
  \cup (IF doc.master # "none" THEN {11} ELSE {})
  \cup (IF \E k \in DOMAIN doc.scenes : doc.scenes[k] \in {"Verse", "Chorus"}
         THEN {12} ELSE {})

\* C18: the sections of a summary come in one order: creator, key, tempo,
\* time signature, loop, markers, audio, midi, return and group tracks,
\* master, scenes, and the closing rule last.  An empty section is skipped;
\* no two sections come in another order.
C18_SectionsInFixedOrder ==
  call.fn = "textconv" =>
    LET text == call.out IN
      /\ \A a, b \in DOMAIN text :
           (a < b /\ SectionRank(text[a]) # 0 /\ SectionRank(text[b]) # 0) =>
             SectionRank(text[a]) < SectionRank(text[b])
      /\ RanksIn(text) = RanksDue(call.arg)
      /\ text[Len(text)].kind = "rule60"
      /\ \A k \in DOMAIN text : text[k].kind = "rule60" => k \in {1, 3, Len(text)}

\* A project with every section: all twelve headings, in order.
C18_Witness ==
  /\ call.fn = "textconv"
  /\ RanksIn(call.out) = 1..12
  /\ call.arg.tracks[1].tag = "ReturnTrack"

\* A project with nothing but its root: the header and the closing rule.
C18_WitnessEmpty ==
  /\ call.fn = "textconv"
  /\ RanksIn(call.out) = {1, 3, 4}
  /\ Len(call.out) = 8

(* -------------------------------- watch -------------------------------- *)
\* The file watch is at, in its for loop.
AtFile == als_files[i]

NewOrAdvanced(f) == f \notin seen \/ mtimes[f] < mtime[f]

\* A step of the loop from "for" on a file: the sample and the test.
SampleStep == pc = "for" /\ i <= Len(als_files) /\ (pc' # pc \/ i' # i)

\* C19: on each poll, a file that is found goes to generate_summary exactly
\* when it was not seen before or its modification time is greater than the
\* one recorded; a file whose modification time has not advanced is never
\* generated again.
C19_GeneratedIffNewOrAdvanced ==
  [][/\ SampleStep =>
          (pc' = "generate" <=> (dir[AtFile].exists /\ NewOrAdvanced(AtFile)))
     /\ (pc = "generate" /\ pc' # pc) => calls'[AtFile] = calls[AtFile] + 1
     /\ \A f \in Paths : calls'[f] # calls[f] =>
          (pc = "generate" /\ f = AtFile /\ NewOrAdvanced(f))]_vars

\* A file generated once when first seen and once more after it was saved
\* again; watch is back to polling with the second time recorded.
C19_Witness ==
  \E f \in Paths :
    /\ pc = "while" /\ f \in seen /\ dir[f].exists
    /\ calls[f] = 2 /\ mtime[f] = 1 /\ mtimes[f] = 1

\* The files watch has recorded at their present modification time.
UpToDate(f) == f \in seen /\ mtimes[f] = mtime[f]

\* C20: a modification made while generate_summary runs on the file is not
\* lost: the time recorded is the one sampled before the generation, so a
\* file recorded at its present modification time was summarised from its
\* present content (and its summary is that of the present content); once the modifications stop, every file gets recorded at
\* its last modification time and watch stops generating.
C20_ModificationNeverLost ==
  /\ [](\A f \in Paths :
          (dir[f].exists /\ UpToDate(f)) =>
            /\ project[f] = parse_als(dir[f].content)
            /\ sidecar[f].text = format_output(parse_als(dir[f].content)))
  /\ [](pc = "record" => (cur <= mtime[AtFile] /\ (AtFile \in seen => mtimes[AtFile] < cur)))
  /\ <>[](\A f \in Paths : dir[f].exists => UpToDate(f))
  /\ <>[](pc \in {"while", "for"})

\* The file was saved again between the read and the write of
\* generate_summary: what is recorded is the time of the version read.
C20_Witness ==
  /\ pc = "record"
  /\ dir[AtFile].exists
  /\ snap.content # dir[AtFile].content
  /\ cur < mtime[AtFile]
  /\ project[AtFile] = parse_als(snap.content)

(* ------------------------------- C21 ----------------------------------- *)
ScriptsAndHook == {"semantic_py", "generate_py", "pre_commit"}
ProjectItems == {"gitattributes", "gitignore", "config"}
ItemsOf(fo) == <<fo.gitattributes, fo.gitignore, fo.config>>
RunEnded == {"exit1", "crashed", "complete"}

\* A step of a run in a folder that had .git-filters at the run's start leaves
\* .gitattributes, .gitignore and the git configuration as they were and
\* writes none of them; so only a run that found no .git-filters at its start
\* writes any of the three.
C21_ExistingProjectKeepsItems ==
  folder'.at_start # "absent" =>
    /\ ItemsOf(folder') = ItemsOf(folder)
    /\ folder'.written \cap ProjectItems = {}

\* C21, as stated: a run of the setup script in a folder where .git-filters
\* exists leaves .gitattributes, .gitignore and the git filter/diff
\* configuration unchanged, these three are written only by a run that found
\* no .git-filters at its start, and every run, however it ends, has rewritten
\* the two filter scripts and the pre-commit hook.
C21_RewrittenOnEveryRun ==
  [][/\ C21_ExistingProjectKeepsItems
     /\ (pc' \in RunEnded /\ folder'.at_start # "absent") =>
          ScriptsAndHook \subseteq folder'.written]_vars

\* C21, amended: a run of the setup script in a folder where .git-filters
\* exists leaves .gitattributes, .gitignore and the git filter/diff
\* configuration unchanged, and these three are written only by a run that
\* found no .git-filters at its start; the two filter scripts and the
\* pre-commit hook are rewritten by every run that completes, and a run that
\* finds no .als file in the folder exits before it writes anything.
C21_RewrittenOnEveryCompleteRun ==
  [][/\ C21_ExistingProjectKeepsItems
     /\ pc' = "complete" =>
          /\ ScriptsAndHook \subseteq folder'.written
          /\ folder'.semantic_py = "current"
          /\ folder'.generate_py = "current"
          /\ folder'.pre_commit = "current"
     /\ pc' = "exit1" =>
          /\ folder'.written = {}
          /\ setup_als_files = {}]_vars

\* An update of an existing project has completed: the scripts and the hook
\* are rewritten, the user's .gitattributes, .gitignore and git settings stand.
C21_Witness ==
  /\ pc = "complete"
  /\ folder.at_start = "dir"
  /\ folder.written = ScriptsAndHook
  /\ ItemsOf(folder) = <<"user", "user", "user">>

\* A first setup has completed and has written all six.
C21_WitnessNewProject ==
  /\ pc = "complete"
  /\ folder.at_start = "absent"
  /\ folder.written = ScriptsAndHook \cup ProjectItems

====
